---------------------------- MODULE Spec2Model ----------------------------
(***************************************************************************)
(* Model of app.py: a genetic algorithm that orders N stations ("puestos") *)
(* on a line.  Lists are Python lists: a list object lives in `heap` under *)
(* a reference, and a variable holding a list holds its reference, so that *)
(* an in-place change is seen through every alias.  Index-valued           *)
(* quantities (i, j, torneo, ganador, punto_cruce, indice_1, indice_2,     *)
(* station numbers) keep Python's 0-based values; the element at Python    *)
(* index i of a list s is s[i + 1] here.                                    *)
(* Sizes are integers and the code halves them (Lxi / 2): every distance   *)
(* and every cost is kept in half units, i.e. as twice the Python value,   *)
(* which is exact.                                                         *)
(***************************************************************************)
EXTENDS Integers, Sequences, FiniteSets, TLC

VARIABLES
    num_puestos,      \* main: num_puestos
    tamanos,          \* main: tamanos
    preferencias,     \* main: preferencias
    heap,             \* the list objects: reference -> contents
    poblacion,        \* main: poblacion, a list of references
    fitness,          \* main: fitness (<<>> while unbound)
    nueva_poblacion,  \* main: nueva_poblacion, a list of references
    generacion,       \* number of iterations of the for loop completed
    padre1, padre2,   \* main: references (0 while unbound or dead)
    hijo1, hijo2,     \* main: references (0 while unbound or dead)
    pc,               \* position of main
    error,            \* "" or the exception that ended the run
    mejor_orden,      \* main: mejor_orden (contents; <<>> while unbound)
    mejor_esfuerzo,   \* main: mejor_esfuerzo in half units (-1 while unbound)
    cruces,           \* crossovers performed so far (model bound)
    mutaciones,       \* mutations performed so far (model bound)
    llamada,          \* a direct call of one function: its name and arguments
    retorno           \* what that call returned

vars == <<num_puestos, tamanos, preferencias, heap, poblacion, fitness,
          nueva_poblacion, generacion, padre1, padre2, hijo1, hijo2, pc,
          error, mejor_orden, mejor_esfuerzo, cruces, mutaciones,
          llamada, retorno>>

entrada == <<num_puestos, tamanos, preferencias>>
locales == <<padre1, padre2, hijo1, hijo2>>
resultado == <<mejor_orden, mejor_esfuerzo>>
azar == <<cruces, mutaciones>>
directa == <<llamada, retorno>>

----------------------------------------------------------------------------
(* Bounds of the model *)

\* largest station count read from the input file
MaxPuestos == 8
\* app.py sets NUM_GENERACIONES = 100; the model runs this many generations
NUM_GENERACIONES == 2
\* how many times random.random() < PROBABILIDAD_CRUCE may hold in a run
MaxCruces == 1
\* how many times random.random() < PROBABILIDAD_MUTACION may hold in a run
MaxMutaciones == 1
\* direct calls of cruce and mutacion: the longest list
MaxLargo == 4
\* direct calls of distancia and evaluar_solucion: the longest ordering
MaxEval == 3
\* direct calls of distancia and evaluar_solucion: the largest size
MaxTamano == 2

\* a variant: a tournament of two
TorneoDeDos == 1 + 1

\* main: seleccion_torneo(poblacion, fitness, 3)
TAMANO_TORNEO == 3

----------------------------------------------------------------------------
(* Lists *)

Range(s) == {s[i] : i \in 1..Len(s)}

Inyectivas(k, S) == {t \in [1..k -> S] : \A a, b \in 1..k : a # b => t[a] # t[b]}

\* list(range(n))
ListaRango(n) == [i \in 1..n |-> i - 1]

\* a fresh reference: one no live object has
Nuevo(h) == CHOOSE r \in 1..(Cardinality(DOMAIN h) + 1) : r \notin DOMAIN h

\* the heap with a new object r
Con(h, r, v) == [x \in DOMAIN h \cup {r} |-> IF x = r THEN v ELSE h[x]]

\* the heap with only the objects of `vivos` (the others are unreachable)
Recolectar(h, vivos) == [x \in DOMAIN h \cap vivos |-> h[x]]

----------------------------------------------------------------------------
(* distancia and evaluar_solucion *)

\* sum(tamanos[orden[k]] for k in range(a, b))
RECURSIVE suma_intermedia(_, _, _, _)
suma_intermedia(a, b, orden, tams) ==
    IF a >= b THEN 0
    ELSE tams[orden[a + 1] + 1] + suma_intermedia(a + 1, b, orden, tams)

\* Lxi / 2 + suma_intermedia + Lxj / 2, in half units
distancia(i, j, orden, tams) ==
    LET Lxi == tams[orden[i + 1] + 1]
        Lxj == tams[orden[j + 1] + 1]
    IN  Lxi + 2 * suma_intermedia(i + 1, j, orden, tams) + Lxj

\* a variant: the weight of the stations at positions i, j
peso_por_puesto(i, j, orden, prefs) == prefs[orden[i + 1] + 1][orden[j + 1] + 1]

\* the weight the evaluator multiplies the distance of positions i, j by
peso(i, j, orden, prefs) == prefs[i + 1][j + 1]

\* for j in range(j, n): esfuerzo += distancia(i, j, ...) * preferencias[i][j]
RECURSIVE bucle_j(_, _, _, _, _, _)
bucle_j(i, j, n, orden, prefs, tams) ==
    IF j >= n THEN 0
    ELSE distancia(i, j, orden, tams) * peso(i, j, orden, prefs)
         + bucle_j(i, j + 1, n, orden, prefs, tams)

\* for i in range(i, n - 1): for j in range(i + 1, n): ...
RECURSIVE bucle_i(_, _, _, _, _)
bucle_i(i, n, orden, prefs, tams) ==
    IF i >= n - 1 THEN 0
    ELSE bucle_j(i, i + 1, n, orden, prefs, tams)
         + bucle_i(i + 1, n, orden, prefs, tams)

\* the cost of an ordering, in half units
evaluar_solucion(orden, prefs, tams) == bucle_i(0, Len(orden), orden, prefs, tams)

----------------------------------------------------------------------------
(* inicializar_poblacion *)

\* a variant: round(num_puestos * 0.5) upwards
tamano_poblacion_redondeado(n) == (n + 1) \div 2

\* int(num_puestos * 0.5)
tamano_poblacion(n) == n \div 2

\* [list(range(num_puestos)) for _ in range(tamano_poblacion)]: the heap with
\* one new list per member, and the list of their references
inicializar_poblacion(n) ==
    [heap |-> [r \in 1..tamano_poblacion(n) |-> ListaRango(n)],
     ret  |-> [r \in 1..tamano_poblacion(n) |-> r]]

----------------------------------------------------------------------------
(* seleccion_torneo *)

\* random.sample(range(len(poblacion)), tamano_torneo) raises ValueError when
\* the sample is larger than the population
MuestraPosible(m, k) == k <= m

\* the samples random.sample(range(m), k) can return: k distinct indices, in
\* any order
Muestras(m, k) == Inyectivas(k, 0..(m - 1))

\* min(torneo, key=lambda x: fitness[x]): the first of the least
min_torneo(torneo, fit) ==
    LET menor(a) == \A b \in 1..Len(torneo) : fit[torneo[a] + 1] <= fit[torneo[b] + 1]
        a == CHOOSE a \in 1..Len(torneo) :
                 menor(a) /\ \A b \in 1..(a - 1) : ~menor(b)
    IN  torneo[a]

\* a variant: return poblacion[ganador], the winner itself
seleccion_torneo_sin_copia(h, pob, fit, torneo) ==
    [heap |-> h, ret |-> pob[min_torneo(torneo, fit) + 1]]

\* return poblacion[ganador][:]: a new list with the winner's contents
seleccion_torneo(h, pob, fit, torneo) ==
    LET ganador == min_torneo(torneo, fit)
        r == Nuevo(h)
    IN  [heap |-> Con(h, r, h[pob[ganador + 1]]), ret |-> r]

----------------------------------------------------------------------------
(* cruce *)

\* random.randint(1, len(padre1) - 1)
PuntosCruce(p1) == 1..(Len(p1) - 1)

\* padre[:punto_cruce]
Prefijo(p, punto_cruce) == SubSeq(p, 1, punto_cruce)

\* [gen for gen in p if gen not in prefijo]
Resto(p, prefijo) == SelectSeq(p, LAMBDA gen : gen \notin Range(prefijo))

\* a variant: the second child filtered with the first parent's prefix
cruce_prefijo_copiado(p1, p2, punto_cruce) ==
    [hijo1 |-> Prefijo(p1, punto_cruce) \o Resto(p2, Prefijo(p1, punto_cruce)),
     hijo2 |-> Prefijo(p2, punto_cruce) \o Resto(p1, Prefijo(p1, punto_cruce))]

\* a variant: positional crossover, the tail taken from the other parent
cruce_posicional(p1, p2, punto_cruce) ==
    [hijo1 |-> Prefijo(p1, punto_cruce) \o SubSeq(p2, punto_cruce + 1, Len(p2)),
     hijo2 |-> Prefijo(p2, punto_cruce) \o SubSeq(p1, punto_cruce + 1, Len(p1))]

\* the two children, as contents
cruce(p1, p2, punto_cruce) ==
    [hijo1 |-> Prefijo(p1, punto_cruce) \o Resto(p2, Prefijo(p1, punto_cruce)),
     hijo2 |-> Prefijo(p2, punto_cruce) \o Resto(p1, Prefijo(p2, punto_cruce))]

----------------------------------------------------------------------------
(* mutacion *)

\* random.sample(range(len(individuo)), 2): two distinct indices, in order
ParesIndices(n) == {par \in (0..(n - 1)) \X (0..(n - 1)) : par[1] # par[2]}

\* a variant: two assignments in sequence instead of the tuple assignment
Intercambiar_en_secuencia(s, indice_1, indice_2) ==
    [s EXCEPT ![indice_1 + 1] = s[indice_2 + 1], ![indice_2 + 1] = s[indice_2 + 1]]

\* individuo[indice_1], individuo[indice_2] = individuo[indice_2], individuo[indice_1]
Intercambiar(s, indice_1, indice_2) ==
    [s EXCEPT ![indice_1 + 1] = s[indice_2 + 1], ![indice_2 + 1] = s[indice_1 + 1]]

\* the individual is changed in place and returned
mutacion(h, individuo, indice_1, indice_2) ==
    [heap |-> [h EXCEPT ![individuo] = Intercambiar(h[individuo], indice_1, indice_2)],
     ret  |-> individuo]

----------------------------------------------------------------------------
(* numpy.argmin *)

\* the first index of the least value
argmin(fit) ==
    CHOOSE a \in 0..(Len(fit) - 1) :
        /\ \A b \in 0..(Len(fit) - 1) : fit[a + 1] <= fit[b + 1]
        /\ \A b \in 0..(a - 1) : fit[b + 1] > fit[a + 1]

----------------------------------------------------------------------------
(* The inputs leer_datos hands to main *)

Unos(n) == [i \in 1..n |-> 1]
Crecientes(n) == [i \in 1..n |-> i]

MatrizUnos(n) == [i \in 1..n |-> [j \in 1..n |-> 1]]
MatrizDistinta(n) == [i \in 1..n |-> [j \in 1..n |-> (i - 1) * n + j]]
MatrizCeros(n) == [i \in 1..n |-> [j \in 1..n |-> 0]]

TamanosDe(n) == {Unos(n), Crecientes(n)}
PreferenciasDe(n) == {MatrizUnos(n), MatrizDistinta(n)}

SinLlamada == [fn |-> "ninguna"]
SinRetorno == [listo |-> FALSE]

----------------------------------------------------------------------------
(* main *)

\* the state after leer_datos (line 146)
Init ==
    /\ num_puestos \in 0..MaxPuestos
    /\ tamanos \in TamanosDe(num_puestos)
    /\ preferencias \in PreferenciasDe(num_puestos)
    /\ heap = <<>>
    /\ poblacion = <<>>
    /\ fitness = <<>>
    /\ nueva_poblacion = <<>>
    /\ generacion = 0
    /\ padre1 = 0 /\ padre2 = 0 /\ hijo1 = 0 /\ hijo2 = 0
    /\ pc = "inicializar"
    /\ error = ""
    /\ mejor_orden = <<>>
    /\ mejor_esfuerzo = -1
    /\ cruces = 0
    /\ mutaciones = 0
    /\ llamada = SinLlamada
    /\ retorno = SinRetorno

Corre(lugar) == pc = lugar /\ error = ""

\* line 152
Inicializar ==
    /\ Corre("inicializar")
    /\ heap' = inicializar_poblacion(num_puestos).heap
    /\ poblacion' = inicializar_poblacion(num_puestos).ret
    /\ pc' = "for"
    /\ UNCHANGED <<entrada, fitness, nueva_poblacion, generacion, locales,
                   error, resultado, azar, directa>>

\* a variant: generacion in range(num_generaciones - 1)
ContinuaFor_una_menos(g) == g < NUM_GENERACIONES - 1

\* generacion in range(num_generaciones)
ContinuaFor(g) == g < NUM_GENERACIONES

\* lines 154-159
Evaluar ==
    /\ Corre("for")
    /\ ContinuaFor(generacion)
    /\ fitness' = [k \in 1..Len(poblacion) |->
                      evaluar_solucion(heap[poblacion[k]], preferencias, tamanos)]
    /\ nueva_poblacion' = <<>>
    /\ pc' = "while"
    /\ UNCHANGED <<entrada, heap, poblacion, generacion, locales, error,
                   resultado, azar, directa>>

\* a variant: len(nueva_poblacion) <= len(poblacion)
ContinuaWhile_inclusive(nueva, pob) == Len(nueva) <= Len(pob)

\* len(nueva_poblacion) < len(poblacion)
ContinuaWhile(nueva, pob) == Len(nueva) < Len(pob)

\* line 162
SeleccionPadre1 ==
    /\ Corre("while")
    /\ ContinuaWhile(nueva_poblacion, poblacion)
    /\ \/ /\ MuestraPosible(Len(poblacion), TAMANO_TORNEO)
          /\ \E torneo \in Muestras(Len(poblacion), TAMANO_TORNEO) :
                LET s == seleccion_torneo(heap, poblacion, fitness, torneo)
                IN  heap' = s.heap /\ padre1' = s.ret
          /\ pc' = "padre2"
          /\ UNCHANGED error
       \/ /\ ~MuestraPosible(Len(poblacion), TAMANO_TORNEO)
          /\ error' = "ValueError"
          /\ UNCHANGED <<heap, padre1, pc>>
    /\ UNCHANGED <<entrada, poblacion, fitness, nueva_poblacion, generacion,
                   padre2, hijo1, hijo2, resultado, azar, directa>>

\* line 163
SeleccionPadre2 ==
    /\ Corre("padre2")
    /\ \E torneo \in Muestras(Len(poblacion), TAMANO_TORNEO) :
          LET s == seleccion_torneo(heap, poblacion, fitness, torneo)
          IN  heap' = s.heap /\ padre2' = s.ret
    /\ pc' = "cruce"
    /\ UNCHANGED <<entrada, poblacion, fitness, nueva_poblacion, generacion,
                   padre1, hijo1, hijo2, error, resultado, azar, directa>>

\* lines 166-170; random.randint(1, 0) raises for a parent of one gene
Cruzar ==
    /\ Corre("cruce")
    /\ \/ /\ cruces < MaxCruces
          /\ cruces' = cruces + 1
          /\ IF PuntosCruce(heap[padre1]) = {}
             THEN /\ error' = "ValueError"
                  /\ UNCHANGED <<heap, hijo1, hijo2, pc>>
             ELSE /\ \E punto_cruce \in PuntosCruce(heap[padre1]) :
                        LET c == cruce(heap[padre1], heap[padre2], punto_cruce)
                            r1 == Nuevo(heap)
                            h1 == Con(heap, r1, c.hijo1)
                            r2 == Nuevo(h1)
                        IN  /\ heap' = Con(h1, r2, c.hijo2)
                            /\ hijo1' = r1
                            /\ hijo2' = r2
                  /\ pc' = "mutacion1"
                  /\ UNCHANGED error
       \/ /\ LET r1 == Nuevo(heap)
                 h1 == Con(heap, r1, heap[padre1])
                 r2 == Nuevo(h1)
             IN  /\ heap' = Con(h1, r2, heap[padre2])
                 /\ hijo1' = r1
                 /\ hijo2' = r2
          /\ pc' = "mutacion1"
          /\ UNCHANGED <<cruces, error>>
    /\ UNCHANGED <<entrada, poblacion, fitness, nueva_poblacion, generacion,
                   padre1, padre2, resultado, mutaciones, directa>>

\* lines 173-176; random.sample raises for a child of fewer than two genes
Mutar1 ==
    /\ Corre("mutacion1")
    /\ \/ /\ mutaciones < MaxMutaciones
          /\ mutaciones' = mutaciones + 1
          /\ IF Len(heap[hijo1]) < 2
             THEN /\ error' = "ValueError"
                  /\ UNCHANGED <<heap, nueva_poblacion, pc>>
             ELSE /\ \E par \in ParesIndices(Len(heap[hijo1])) :
                        LET m == mutacion(heap, hijo1, par[1], par[2])
                        IN  /\ heap' = m.heap
                            /\ nueva_poblacion' = Append(nueva_poblacion, m.ret)
                  /\ pc' = "mutacion2"
                  /\ UNCHANGED error
       \/ /\ nueva_poblacion' = Append(nueva_poblacion, hijo1)
          /\ pc' = "mutacion2"
          /\ UNCHANGED <<heap, mutaciones, error>>
    /\ UNCHANGED <<entrada, poblacion, fitness, generacion, locales,
                   resultado, cruces, directa>>

\* lines 178-181; afterwards padre1, padre2, hijo1 and hijo2 are not read
\* again before they are assigned, and the parents are unreachable
Mutar2 ==
    /\ Corre("mutacion2")
    /\ \/ /\ mutaciones < MaxMutaciones
          /\ mutaciones' = mutaciones + 1
          /\ IF Len(heap[hijo2]) < 2
             THEN /\ error' = "ValueError"
                  /\ UNCHANGED <<heap, nueva_poblacion, pc, locales>>
             ELSE /\ \E par \in ParesIndices(Len(heap[hijo2])) :
                        LET m == mutacion(heap, hijo2, par[1], par[2])
                        IN  /\ nueva_poblacion' = Append(nueva_poblacion, m.ret)
                            /\ heap' = Recolectar(m.heap,
                                   Range(poblacion) \cup Range(nueva_poblacion'))
                  /\ pc' = "while"
                  /\ padre1' = 0 /\ padre2' = 0 /\ hijo1' = 0 /\ hijo2' = 0
                  /\ UNCHANGED error
       \/ /\ nueva_poblacion' = Append(nueva_poblacion, hijo2)
          /\ heap' = Recolectar(heap, Range(poblacion) \cup Range(nueva_poblacion'))
          /\ pc' = "while"
          /\ padre1' = 0 /\ padre2' = 0 /\ hijo1' = 0 /\ hijo2' = 0
          /\ UNCHANGED <<mutaciones, error>>
    /\ UNCHANGED <<entrada, poblacion, fitness, generacion, resultado, cruces,
                   directa>>

\* line 184, at the exit of the while loop; the old population is unreachable
Reemplazar ==
    /\ Corre("while")
    /\ ~ContinuaWhile(nueva_poblacion, poblacion)
    /\ poblacion' = nueva_poblacion
    /\ heap' = Recolectar(heap, Range(nueva_poblacion))
    /\ generacion' = generacion + 1
    /\ pc' = "for"
    /\ UNCHANGED <<entrada, fitness, nueva_poblacion, locales, error,
                   resultado, azar, directa>>

\* lines 186-187, at the exit of the for loop; argmin of an empty list raises
Mejor ==
    /\ Corre("for")
    /\ ~ContinuaFor(generacion)
    /\ \/ /\ fitness # <<>>
          /\ mejor_orden' = heap[poblacion[argmin(fitness) + 1]]
          /\ mejor_esfuerzo' = evaluar_solucion(mejor_orden', preferencias, tamanos)
          /\ pc' = "fin"
          /\ UNCHANGED error
       \/ /\ fitness = <<>>
          /\ error' = "ValueError"
          /\ UNCHANGED <<resultado, pc>>
    /\ UNCHANGED <<entrada, heap, poblacion, fitness, nueva_poblacion,
                   generacion, locales, azar, directa>>

Next ==
    \/ Inicializar
    \/ Evaluar
    \/ SeleccionPadre1
    \/ SeleccionPadre2
    \/ Cruzar
    \/ Mutar1
    \/ Mutar2
    \/ Reemplazar
    \/ Mejor

Spec == Init /\ [][Next]_vars

\* the inputs of the runs checked to their end: the end-to-end scenario
\* (N = 4) and N = 6, with equal and with different sizes and preferences
InitFair ==
    /\ Init
    /\ num_puestos \in {4, 6}
    /\ <<tamanos, preferencias>> \in
           {<<Unos(num_puestos), MatrizUnos(num_puestos)>>,
            <<Crecientes(num_puestos), MatrizDistinta(num_puestos)>>}

\* main runs on: a step that can be taken is taken
SpecFair == InitFair /\ [][Next]_vars /\ WF_vars(Next)

----------------------------------------------------------------------------
(* Direct calls of distancia, evaluar_solucion, cruce and mutacion *)

Permutaciones(n) == Inyectivas(n, 0..(n - 1))

MatrizNegativa(n) == [i \in 1..n |-> [j \in 1..n |-> i - j]]

TamanosDirectos(n) == [1..n -> 0..MaxTamano]
PreferenciasDirectas(n) ==
    {MatrizCeros(n), MatrizUnos(n), MatrizDistinta(n), MatrizNegativa(n)}

LlamadasDistancia ==
    {[fn |-> "distancia", i |-> q[1], j |-> q[2], orden |-> q[3], tamanos |-> q[4]] :
        q \in {q \in UNION {(0..(n - 1)) \X (0..(n - 1)) \X Permutaciones(n)
                                \X TamanosDirectos(n) : n \in 2..MaxEval} :
                 q[1] < q[2]}}

LlamadasEvaluar ==
    {[fn |-> "evaluar_solucion", orden |-> o, preferencias |-> p, tamanos |-> t] :
        <<o, p, t>> \in
            UNION {Permutaciones(n) \X PreferenciasDirectas(n) \X TamanosDirectos(n) :
                   n \in 0..MaxEval}}

\* the arguments are the references 1 and 2
LlamadasCruce ==
    {[fn |-> "cruce", padre1 |-> 1, padre2 |-> 2, antes1 |-> a, antes2 |-> b] :
        <<a, b>> \in UNION {Permutaciones(n) \X Permutaciones(n) : n \in 2..MaxLargo}}

\* the argument is the reference 1
LlamadasMutacion ==
    {[fn |-> "mutacion", individuo |-> 1, antes |-> a] :
        a \in UNION {[1..n -> 0..(n - 1)] : n \in 2..MaxLargo}}

HeapDe(ll) ==
    CASE ll.fn = "cruce" -> Con(Con(<<>>, 1, ll.antes1), 2, ll.antes2)
      [] ll.fn = "mutacion" -> Con(<<>>, 1, ll.antes)
      [] OTHER -> <<>>

InitDirecta ==
    /\ llamada \in LlamadasDistancia \cup LlamadasEvaluar \cup LlamadasCruce
                   \cup LlamadasMutacion
    /\ retorno = SinRetorno
    /\ heap = HeapDe(llamada)
    /\ num_puestos = 0
    /\ tamanos = <<>>
    /\ preferencias = <<>>
    /\ poblacion = <<>>
    /\ fitness = <<>>
    /\ nueva_poblacion = <<>>
    /\ generacion = 0
    /\ padre1 = 0 /\ padre2 = 0 /\ hijo1 = 0 /\ hijo2 = 0
    /\ pc = "directa"
    /\ error = ""
    /\ mejor_orden = <<>>
    /\ mejor_esfuerzo = -1
    /\ cruces = 0
    /\ mutaciones = 0

Pendiente(fn) == llamada.fn = fn /\ ~retorno.listo

LlamarDistancia ==
    /\ Pendiente("distancia")
    /\ retorno' = [listo |-> TRUE,
                   valor |-> distancia(llamada.i, llamada.j, llamada.orden,
                                       llamada.tamanos)]
    /\ UNCHANGED <<entrada, heap, poblacion, fitness, nueva_poblacion,
                   generacion, locales, pc, error, resultado, azar, llamada>>

LlamarEvaluar ==
    /\ Pendiente("evaluar_solucion")
    /\ retorno' = [listo |-> TRUE,
                   valor |-> evaluar_solucion(llamada.orden, llamada.preferencias,
                                              llamada.tamanos)]
    /\ UNCHANGED <<entrada, heap, poblacion, fitness, nueva_poblacion,
                   generacion, locales, pc, error, resultado, azar, llamada>>

LlamarCruce ==
    /\ Pendiente("cruce")
    /\ \E punto_cruce \in PuntosCruce(heap[llamada.padre1]) :
          LET c == cruce(heap[llamada.padre1], heap[llamada.padre2], punto_cruce)
              r1 == Nuevo(heap)
              h1 == Con(heap, r1, c.hijo1)
              r2 == Nuevo(h1)
          IN  /\ heap' = Con(h1, r2, c.hijo2)
              /\ retorno' = [listo |-> TRUE, punto_cruce |-> punto_cruce,
                             hijo1 |-> r1, hijo2 |-> r2]
    /\ UNCHANGED <<entrada, poblacion, fitness, nueva_poblacion,
                   generacion, locales, pc, error, resultado, azar, llamada>>

LlamarMutacion ==
    /\ Pendiente("mutacion")
    /\ \E par \in ParesIndices(Len(heap[llamada.individuo])) :
          LET m == mutacion(heap, llamada.individuo, par[1], par[2])
          IN  /\ heap' = m.heap
              /\ retorno' = [listo |-> TRUE, indice_1 |-> par[1],
                             indice_2 |-> par[2], valor |-> m.ret]
    /\ UNCHANGED <<entrada, poblacion, fitness, nueva_poblacion,
                   generacion, locales, pc, error, resultado, azar, llamada>>

NextDirecta ==
    \/ LlamarDistancia
    \/ LlamarEvaluar
    \/ LlamarCruce
    \/ LlamarMutacion

SpecDirecta == InitDirecta /\ [][NextDirecta]_vars


----------------------------------------------------------------------------
(* What the claims are stated with *)

\* each of 0..n-1 exactly once
EsPermutacion(s, n) ==
    /\ Len(s) = n
    /\ \A v \in 0..(n - 1) : Cardinality({k \in 1..Len(s) : s[k] = v}) = 1

\* the contents of a list of lists
Contenido(h, pob) == [k \in 1..Len(pob) |-> h[pob[k]]]

\* the lists main can reach
Alcanzables ==
    Range(poblacion) \cup Range(nueva_poblacion)
        \cup ({padre1, padre2, hijo1, hijo2} \ {0})

\* M = floor(N * 0.5)
M == num_puestos \div 2

RECURSIVE SumaDe(_)
SumaDe(f) ==
    IF DOMAIN f = {} THEN 0
    ELSE LET x == CHOOSE x \in DOMAIN f : TRUE
         IN  f[x] + SumaDe([y \in DOMAIN f \ {x} |-> f[y]])

ParesDePosiciones(n) == {par \in (0..(n - 1)) \X (0..(n - 1)) : par[1] < par[2]}

\* size(order[i])/2 + sum of size(order[k]) for i < k < j + size(order[j])/2,
\* in half units
DistanciaDeclarada(i, j, orden, tams) ==
    tams[orden[i + 1] + 1]
    + 2 * SumaDe([k \in (i + 1)..(j - 1) |-> tams[orden[k + 1] + 1]])
    + tams[orden[j + 1] + 1]

\* the sum over the position pairs i < j of distance(i, j) * preference[i][j]
CosteDeclarado(orden, prefs, tams) ==
    SumaDe([par \in ParesDePosiciones(Len(orden)) |->
               DistanciaDeclarada(par[1], par[2], orden, tams)
               * prefs[par[1] + 1][par[2] + 1]])

\* the position of gen in the permutation p
PosicionEn(p, gen) == CHOOSE k \in 1..Len(p) : p[k] = gen

\* hijo is padre's first punto genes, then exactly the genes of otro that are
\* not among them, in otro's order
EsCruceDe(hijo, padre, otro, punto) ==
    /\ Len(hijo) = Len(padre)
    /\ \A k \in 1..punto : hijo[k] = padre[k]
    /\ {hijo[k] : k \in (punto + 1)..Len(hijo)}
           = Range(otro) \ {padre[k] : k \in 1..punto}
    /\ \A a, b \in (punto + 1)..Len(hijo) :
           a < b => PosicionEn(otro, hijo[a]) < PosicionEn(otro, hijo[b])

----------------------------------------------------------------------------
(* The claims *)

\* C1: in every state of a run, every candidate of the population, of the new
\* population under construction and every selected parent and child is a
\* permutation of 0..N-1
Thm_C1_Permutaciones ==
    pc # "directa" =>
        \A r \in Alcanzables : EsPermutacion(heap[r], num_puestos)

\* a member of a later population that neither the initializer nor one swap
\* of the identity gives: it comes from a crossover of two different parents
Wit_C1_Permutaciones ==
    /\ pc = "for"
    /\ generacion = NUM_GENERACIONES
    /\ \E r \in Range(poblacion) :
          Cardinality({k \in 1..Len(heap[r]) : heap[r][k] # k - 1}) > 2

\* C2: at the end, no candidate of the final population costs less than the
\* ordering reported as best, which is one of the final population
Claim_C2_MejorEsMinimo ==
    pc = "fin" =>
        /\ \E k \in 1..Len(poblacion) : heap[poblacion[k]] = mejor_orden
        /\ \A k \in 1..Len(poblacion) :
              evaluar_solucion(heap[poblacion[k]], preferencias, tamanos)
                  >= mejor_esfuerzo

\* N = 4, sizes [1,1,1,1], all-ones preferences
EsCasoCuatro ==
    num_puestos = 4 /\ tamanos = Unos(4) /\ preferencias = MatrizUnos(4)

\* N = 6, sizes all 1, all-ones preferences
EsCasoSeis ==
    num_puestos = 6 /\ tamanos = Unos(6) /\ preferencias = MatrizUnos(6)

\* C3 as claimed: the run for N = 4, sizes [1,1,1,1] and all-ones preferences
\* raises no error
Claim_C3_CuatroSinError == EsCasoCuatro => error = ""

\* C3 as amended: for N = 4 (population 2, tournament 3) the run never
\* reports a result and ends in a ValueError; for N = 6 with the same sizes
\* and preferences it raises no error, ends, and reports a permutation and a
\* non-negative value
Thm_C3_ExtremoAExtremo ==
    /\ [](EsCasoCuatro => pc # "fin" /\ mejor_orden = <<>>)
    /\ [](EsCasoSeis =>
            /\ error = ""
            /\ pc = "fin" => EsPermutacion(mejor_orden, 6) /\ mejor_esfuerzo >= 0)
    /\ (EsCasoCuatro \/ EsCasoSeis) =>
          <>(\/ EsCasoCuatro /\ error = "ValueError"
             \/ EsCasoSeis /\ pc = "fin")

Wit_C3_ExtremoAExtremo ==
    EsCasoCuatro /\ error = "ValueError" /\ Len(poblacion) = 2 /\ Len(fitness) = 2

\* C4 as claimed: at every generation boundary the population has M members
Claim_C4_TamanoFijo == pc = "for" => Len(poblacion) = M

\* C4 as amended: the population has M members after the initialization and
\* M rounded up to an even number after every replacement
Thm_C4_Tamano ==
    pc = "for" =>
        Len(poblacion) = IF generacion = 0 THEN M ELSE M + (M % 2)

Wit_C4_Tamano ==
    /\ pc = "for"
    /\ generacion = NUM_GENERACIONES
    /\ M = 3
    /\ Len(poblacion) = 4

\* the tournament is larger than the population, or the population is empty
ConfiguracionInvalida == TAMANO_TORNEO > M \/ M = 0

\* C5: with an invalid configuration nothing of the evolution loop runs: the
\* run never gets past the head of the first generation
Claim_C5_RechazoPrevio ==
    (pc # "directa" /\ ConfiguracionInvalida) =>
        /\ pc \in {"inicializar", "for"}
        /\ generacion = 0
        /\ fitness = <<>>

\* C6: what seleccion_torneo returns is a new list (none of the population,
\* and not the other parent), and between the evaluation and the replacement
\* no step changes the population or the contents of its candidates
Thm_C6_SinAlias ==
    [][/\ \A r \in {padre1', padre2', hijo1', hijo2'} \ {0} :
              r \notin Range(poblacion')
       /\ (padre1' # 0 /\ padre2' # 0) => padre1' # padre2'
       /\ (pc \notin {"inicializar", "directa"} /\ generacion' = generacion) =>
              /\ poblacion' = poblacion
              /\ Contenido(heap', poblacion') = Contenido(heap, poblacion)]_vars

\* both parents have the same contents and the first child, a copy of the
\* first parent, was changed in place
Wit_C6_SinAlias ==
    /\ pc = "mutacion2"
    /\ cruces = 0
    /\ heap[padre1] = heap[padre2]
    /\ heap[hijo1] # heap[padre1]
    /\ Contenido(heap, poblacion) = [k \in 1..Len(poblacion) |-> heap[padre1]]

\* C7: cruce picks p in 1..L-1; each child is one parent's first p genes and
\* then exactly the other parent's remaining genes in that parent's order;
\* the children have length L and the parents are unchanged
Thm_C7_Cruce ==
    (llamada.fn = "cruce" /\ retorno.listo) =>
        LET p == retorno.punto_cruce
            L == Len(llamada.antes1)
        IN  /\ 1 <= p /\ p <= L - 1
            /\ EsCruceDe(heap[retorno.hijo1], llamada.antes1, llamada.antes2, p)
            /\ EsCruceDe(heap[retorno.hijo2], llamada.antes2, llamada.antes1, p)
            /\ Len(heap[retorno.hijo1]) = L
            /\ Len(heap[retorno.hijo2]) = L
            /\ heap[llamada.padre1] = llamada.antes1
            /\ heap[llamada.padre2] = llamada.antes2
            /\ (llamada.antes1 = <<0, 1, 2, 3>> /\ llamada.antes2 = <<3, 2, 1, 0>>
                    /\ p = 2) => heap[retorno.hijo1] = <<0, 1, 3, 2>>

Wit_C7_Cruce ==
    /\ llamada.fn = "cruce"
    /\ retorno.listo
    /\ llamada.antes1 = <<0, 1, 2, 3>>
    /\ llamada.antes2 = <<3, 2, 1, 0>>
    /\ retorno.punto_cruce = 2
    /\ heap[retorno.hijo1] = <<0, 1, 3, 2>>
    /\ heap[retorno.hijo2] = <<3, 2, 0, 1>>

\* C8: evaluar_solucion returns the sum over the position pairs i < j of
\* distance(i, j) * preference[i][j], with the distance of the claim; it is
\* not negative when the sizes are positive and the preferences not negative,
\* and 0 when every preference is 0 (values in half units)
Thm_C8_Evaluador ==
    retorno.listo =>
        /\ llamada.fn = "evaluar_solucion" =>
              /\ retorno.valor = CosteDeclarado(llamada.orden, llamada.preferencias,
                                                llamada.tamanos)
              /\ ((\A k \in 1..Len(llamada.tamanos) : llamada.tamanos[k] > 0)
                  /\ (\A a, b \in 1..Len(llamada.orden) :
                         llamada.preferencias[a][b] >= 0))
                    => retorno.valor >= 0
              /\ llamada.preferencias = MatrizCeros(Len(llamada.orden))
                    => retorno.valor = 0
        /\ llamada.fn = "distancia" =>
              /\ retorno.valor = DistanciaDeclarada(llamada.i, llamada.j,
                                                    llamada.orden, llamada.tamanos)
              /\ (llamada.tamanos = <<2, 2, 2>> /\ llamada.orden = <<0, 1, 2>>
                    /\ llamada.i = 0 /\ llamada.j = 2) => retorno.valor = 2 * 4

\* an ordering other than the identity, evaluated with preferences that differ
\* from position to position
Wit_C8_Evaluador ==
    /\ llamada.fn = "evaluar_solucion"
    /\ retorno.listo
    /\ llamada.orden = <<2, 0, 1>>
    /\ llamada.tamanos = <<1, 2, 2>>
    /\ llamada.preferencias = MatrizDistinta(3)
    /\ retorno.valor = 2 * 21

\* C9: mutacion exchanges the contents of two distinct positions, leaves every
\* other position as it was, and returns the very list it was given
Thm_C9_Mutacion ==
    (llamada.fn = "mutacion" /\ retorno.listo) =>
        LET antes == llamada.antes
            ahora == heap[llamada.individuo]
            a == retorno.indice_1 + 1
            b == retorno.indice_2 + 1
        IN  /\ retorno.valor = llamada.individuo
            /\ DOMAIN heap = {llamada.individuo}
            /\ a # b
            /\ a \in 1..Len(antes) /\ b \in 1..Len(antes)
            /\ Len(ahora) = Len(antes)
            /\ ahora[a] = antes[b]
            /\ ahora[b] = antes[a]
            /\ \A k \in 1..Len(antes) : k \notin {a, b} => ahora[k] = antes[k]

Wit_C9_Mutacion ==
    /\ llamada.fn = "mutacion"
    /\ retorno.listo
    /\ llamada.antes = <<0, 1, 2, 3>>
    /\ heap[retorno.valor] = <<0, 3, 2, 1>>

\* the steps of main, by position
PasosDeMain ==
    {<<"inicializar", "for">>, <<"for", "while">>, <<"while", "padre2">>,
     <<"padre2", "cruce">>, <<"cruce", "mutacion1">>,
     <<"mutacion1", "mutacion2">>, <<"mutacion2", "while">>,
     <<"while", "for">>, <<"for", "fin">>}

\* C10: with M >= 3 every run ends with the best candidate reported after
\* exactly NUM_GENERACIONES generations; each generation evaluates, then
\* reproduces, then replaces; an iteration of the reproduction loop adds two
\* children, and the loop ends as soon as the new population is at least as
\* large as the old one
Thm_C10_Termina ==
    /\ (M >= TAMANO_TORNEO) => <>(pc = "fin" /\ generacion = NUM_GENERACIONES)
    /\ [][(M >= TAMANO_TORNEO) =>
            /\ error' = ""
            /\ <<pc, pc'>> \in PasosDeMain
            /\ generacion' = (IF <<pc, pc'>> = <<"while", "for">>
                              THEN generacion + 1 ELSE generacion)
            /\ generacion' <= NUM_GENERACIONES
            /\ pc' = "while" => Len(nueva_poblacion') % 2 = 0
            /\ <<pc, pc'>> = <<"while", "for">> =>
                  /\ Len(nueva_poblacion) >= Len(poblacion)
                  /\ Len(nueva_poblacion) < Len(poblacion) + 2
                  /\ poblacion' = nueva_poblacion
            /\ <<pc, pc'>> = <<"for", "while">> =>
                  /\ Len(fitness') = Len(poblacion)
                  /\ nueva_poblacion' = <<>>]_vars

Wit_C10_Termina ==
    /\ pc = "fin"
    /\ M >= TAMANO_TORNEO
    /\ generacion = NUM_GENERACIONES
    /\ mejor_esfuerzo >= 0

=============================================================================
